---- MODULE Spec2Model ----
(***************************************************************************)
(* karllm-client: the streaming chat client.                               *)
(*   - chatWithLLM (api.ts): fetch, read loop, TextDecoder, frame split,   *)
(*     payload-line decode, onChunk.                                       *)
(*   - ChatBox.handleSend (ChatBox.tsx): transcript, streaming flag,       *)
(*     AbortController, the onChunk fold.                                  *)
(*   - App (App.tsx): input, Send button, Enter key, file upload.          *)
(* Text is a sequence of one-character strings; a response body is a       *)
(* sequence of bytes (an ASCII byte is written as its character, the two   *)
(* bytes of U+00E9 as "C3" and "A9").                                      *)
(***************************************************************************)
EXTENDS Integers, Sequences, FiniteSets, TLC

(* ------------------------------ bounds -------------------------------- *)

\* Sends (streams) one run of the client starts.
MaxSends == 2
\* Payload items of one response body of the decoder specification.
MaxFrames == 2
\* Largest partial network read, in bytes (a read may also deliver all the rest).
MaxRead == 2

(* --------------------------- characters ------------------------------- *)

CR == "\r"
LF == "\n"
QUOTE == "\""
EAcute == "U+00E9"
Replacement == "U+FFFD"
ByteC3 == "C3"
ByteA9 == "A9"

\* String.prototype.trim strips these (of the characters used here).
WhiteSpace == {" ", "\t", LF, CR}

\* "data:"
DataPrefix == <<"d", "a", "t", "a", ":">>
\* "[DONE]"
DoneToken == <<"[", "D", "O", "N", "E", "]">>

\* ss[lo] \o ... \o ss[hi]
RECURSIVE Concat(_, _, _)
Concat(ss, lo, hi) ==
  IF lo > hi THEN <<>>
  ELSE IF lo = hi THEN ss[lo]
  ELSE LET mid == (lo + hi) \div 2
       IN Concat(ss, lo, mid) \o Concat(ss, mid + 1, hi)

\* The first index from i on whose character is in S; Len(s) + 1: none.
FirstIn(s, i, S) ==
  IF i > Len(s) THEN i
  ELSE CHOOSE j \in i..(Len(s) + 1) :
         /\ j = Len(s) + 1 \/ s[j] \in S
         /\ \A k \in i..(j - 1) : s[k] \notin S

\* The first index from i on whose character is not in S; Len(s) + 1: none.
FirstNotIn(s, i, S) ==
  IF i > Len(s) THEN i
  ELSE CHOOSE j \in i..(Len(s) + 1) :
         /\ j = Len(s) + 1 \/ s[j] \notin S
         /\ \A k \in i..(j - 1) : s[k] \in S

(* ----------------------- TextDecoder("utf-8") ------------------------- *)

IsLead(b) == b = ByteC3
IsContinuation(b) == b = ByteA9

\* A decode without {stream: true}: nothing is carried over, so an incomplete
\* sequence at the end of the bytes, and its rest at the start of the next, are
\* each U+FFFD.
Utf8Decode_NoCarry(pend, bytes) ==
  LET n == Len(bytes)
      char(i) ==
        IF IsLead(bytes[i])
        THEN IF i < n /\ IsContinuation(bytes[i + 1]) THEN EAcute ELSE Replacement
        ELSE IF IsContinuation(bytes[i])
        THEN IF i > 1 /\ IsLead(bytes[i - 1]) THEN "" ELSE Replacement
        ELSE bytes[i]
  IN [out |-> SelectSeq([i \in 1..n |-> char(i)], LAMBDA c : c # ""), pend |-> <<>>]

\* decoder.decode(value, {stream: true}): pend holds the bytes of an incomplete
\* sequence carried over from the previous call.  A lead byte followed by its
\* continuation byte is one character; a lead byte followed by anything else, and
\* a continuation byte on its own, is U+FFFD; a lead byte at the end is held back.
Utf8Decode(pend, bytes) ==
  LET all == pend \o bytes
      n == Len(all)
      char(i) ==
        IF IsLead(all[i])
        THEN IF i = n THEN ""
             ELSE IF IsContinuation(all[i + 1]) THEN EAcute ELSE Replacement
        ELSE IF IsContinuation(all[i])
        THEN IF i > 1 /\ IsLead(all[i - 1]) THEN "" ELSE Replacement
        ELSE all[i]
  IN [out |-> SelectSeq([i \in 1..n |-> char(i)], LAMBDA c : c # ""),
      pend |-> IF n > 0 /\ IsLead(all[n]) THEN <<all[n]>> ELSE <<>>]

(* --------------------------- String methods --------------------------- *)

\* Length of the match of /\r?\n\r?\n/ ("blank") or /\r?\n/ ("line") at i; 0: none.
MatchLen(s, i, kind) ==
  LET n == Len(s)
      j == IF i <= n /\ s[i] = CR THEN i + 1 ELSE i
  IN IF ~(j <= n /\ s[j] = LF) THEN 0
     ELSE IF kind = "line" THEN j - i + 1
     ELSE LET k == IF j + 1 <= n /\ s[j + 1] = CR THEN j + 2 ELSE j + 1
          IN IF k <= n /\ s[k] = LF THEN k - i + 1 ELSE 0

\* The leftmost match at or after from; 0: none.
NextMatch(s, kind, from) ==
  LET i == FirstIn(s, from, {CR, LF})
      hits == {j \in i..Len(s) : MatchLen(s, j, kind) > 0}
  IN IF hits = {} THEN 0 ELSE CHOOSE j \in hits : \A h \in hits : j <= h

RECURSIVE SplitFrom(_, _, _)
SplitFrom(s, kind, start) ==
  LET i == NextMatch(s, kind, start)
  IN IF i = 0 THEN <<SubSeq(s, start, Len(s))>>
     ELSE <<SubSeq(s, start, i - 1)>> \o SplitFrom(s, kind, i + MatchLen(s, i, kind))

\* s.split(/\r?\n\r?\n/) and s.split(/\r?\n/)
Split(s, kind) == SplitFrom(s, kind, 1)

\* A trim that strips nothing.
Trim_Identity(s) == s

\* s.trim()
Trim(s) ==
  LET first == FirstNotIn(s, 1, WhiteSpace)
      inner == {j \in first..Len(s) : s[j] \notin WhiteSpace}
  IN IF inner = {} THEN <<>>
     ELSE SubSeq(s, first, CHOOSE j \in inner : \A h \in inner : h <= j)

StartsWith(s, p) == Len(s) >= Len(p) /\ SubSeq(s, 1, Len(p)) = p

(* ----------------------------- JSON.parse ------------------------------ *)
(* The grammar modelled: objects, arrays, strings without escapes,         *)
(* unsigned integers, null, true, false, with JSON whitespace.  A value is *)
(* a record: t its type, s its text (string, number, boolean), items its   *)
(* elements (array) or member values (object), keys its member names.      *)

JsVal(t, s, items, keys) == [t |-> t, s |-> s, items |-> items, keys |-> keys]
Undefined == JsVal("undefined", <<>>, <<>>, <<>>)
JsNull == JsVal("null", <<>>, <<>>, <<>>)
JsString(s) == JsVal("str", s, <<>>, <<>>)
JsArray(items) == JsVal("arr", <<>>, items, <<>>)

ParseFail == [ok |-> FALSE, val |-> Undefined, next |-> 0]
ParseOk(v, n) == [ok |-> TRUE, val |-> v, next |-> n]

JsonWs == {" ", "\t", LF, CR}
ControlChars == {"\t", LF, CR}
Digits == {"0", "1", "2", "3", "4", "5", "6", "7", "8", "9"}

\* The character at i, "" past the end.
At(s, i) == IF i >= 1 /\ i <= Len(s) THEN s[i] ELSE ""

SkipWs(s, i) == FirstNotIn(s, i, JsonWs)

\* Index of the quote closing a string whose first character is at i; 0: none.
StringEnd(s, i) ==
  LET e == FirstIn(s, i, {QUOTE} \cup ControlChars)
  IN IF At(s, e) = QUOTE THEN e ELSE 0

DigitsEnd(s, i) == FirstNotIn(s, i, Digits)

ParseLiteral(s, i) ==
  LET word(n) == SubSeq(s, i, i + n - 1)
  IN IF i + 3 <= Len(s) /\ word(4) = <<"n", "u", "l", "l">> THEN ParseOk(JsNull, i + 4)
     ELSE IF i + 3 <= Len(s) /\ word(4) = <<"t", "r", "u", "e">>
       THEN ParseOk(JsVal("bool", word(4), <<>>, <<>>), i + 4)
     ELSE IF i + 4 <= Len(s) /\ word(5) = <<"f", "a", "l", "s", "e">>
       THEN ParseOk(JsVal("bool", word(5), <<>>, <<>>), i + 5)
     ELSE ParseFail

RECURSIVE ParseValue(_, _)
RECURSIVE ParseElems(_, _, _)
RECURSIVE ParseMembers(_, _, _, _)

\* The elements of an array from i on, up to its "]".
ParseElems(s, i, acc) ==
  LET r == ParseValue(s, SkipWs(s, i))
  IN IF ~r.ok THEN ParseFail
     ELSE LET j == SkipWs(s, r.next)
          IN IF At(s, j) = "," THEN ParseElems(s, j + 1, Append(acc, r.val))
             ELSE IF At(s, j) = "]" THEN ParseOk(JsArray(Append(acc, r.val)), j + 1)
             ELSE ParseFail

\* The members of an object from i on, up to its "}".
ParseMembers(s, i, keys, vals) ==
  LET j == SkipWs(s, i)
      e == IF At(s, j) = QUOTE THEN StringEnd(s, j + 1) ELSE 0
      k == SkipWs(s, e + 1)
  IN IF e = 0 \/ At(s, k) # ":" THEN ParseFail
     ELSE LET r == ParseValue(s, SkipWs(s, k + 1))
          IN IF ~r.ok THEN ParseFail
             ELSE LET m == SkipWs(s, r.next)
                      ks == Append(keys, SubSeq(s, j + 1, e - 1))
                      vs == Append(vals, r.val)
                  IN IF At(s, m) = "," THEN ParseMembers(s, m + 1, ks, vs)
                     ELSE IF At(s, m) = "}" THEN ParseOk(JsVal("obj", <<>>, vs, ks), m + 1)
                     ELSE ParseFail

ParseValue(s, i) ==
  LET c == At(s, i)
  IN IF c = QUOTE
       THEN LET e == StringEnd(s, i + 1)
            IN IF e = 0 THEN ParseFail
               ELSE ParseOk(JsString(SubSeq(s, i + 1, e - 1)), e + 1)
     ELSE IF c = "["
       THEN LET j == SkipWs(s, i + 1)
            IN IF At(s, j) = "]" THEN ParseOk(JsArray(<<>>), j + 1)
               ELSE ParseElems(s, j, <<>>)
     ELSE IF c = "{"
       THEN LET j == SkipWs(s, i + 1)
            IN IF At(s, j) = "}" THEN ParseOk(JsVal("obj", <<>>, <<>>, <<>>), j + 1)
               ELSE ParseMembers(s, j, <<>>, <<>>)
     ELSE IF c \in Digits
       THEN LET e == IF c = "0" THEN i + 1 ELSE DigitsEnd(s, i)
            IN ParseOk(JsVal("num", SubSeq(s, i, e - 1), <<>>, <<>>), e)
     ELSE ParseLiteral(s, i)

\* A value r parsed from s is the result if only whitespace follows it.
WholeInput(s, r) == IF r.ok /\ SkipWs(s, r.next) = Len(s) + 1 THEN r ELSE ParseFail

\* JSON.parse(raw): ok is FALSE where it throws a SyntaxError.
JsonParse(s) == WholeInput(s, ParseValue(s, SkipWs(s, 1)))

(* ------------------------- JavaScript coercions ------------------------ *)

TextKey == <<"t", "e", "x", "t">>

\* msg.text of a non-null value: own property "text" of an object (the last of
\* duplicate members), undefined of anything else.
GetText(msg) ==
  LET hits == {k \in 1..Len(msg.keys) : msg.keys[k] = TextKey}
  IN IF msg.t = "obj" /\ hits # {}
     THEN msg.items[CHOOSE k \in hits : \A h \in hits : h <= k]
     ELSE Undefined

RECURSIVE ToStringJs(_)
RECURSIVE JoinItems(_, _)

\* Array.prototype.join(sep): null and undefined elements give "".
JoinItems(items, sep) ==
  IF items = <<>> THEN <<>>
  ELSE LET h == Head(items)
           hs == IF h.t \in {"null", "undefined"} THEN <<>> ELSE ToStringJs(h)
       IN IF Len(items) = 1 THEN hs ELSE hs \o sep \o JoinItems(Tail(items), sep)

\* String(v)
ToStringJs(v) ==
  IF v.t = "undefined" THEN <<"u", "n", "d", "e", "f", "i", "n", "e", "d">>
  ELSE IF v.t = "null" THEN <<"n", "u", "l", "l">>
  ELSE IF v.t = "arr" THEN JoinItems(v.items, <<",">>)
  ELSE IF v.t = "obj"
    THEN <<"[", "o", "b", "j", "e", "c", "t", " ", "O", "b", "j", "e", "c", "t", "]">>
  ELSE v.s

(* ------------------- chatWithLLM: one payload line --------------------- *)

\* msg.text === "[DONE]" (line 135); the array test of line 136 is an expression
\* statement whose value is dropped.
IsDoneText(text) == text.t = "str" /\ text.s = DoneToken

\* An array left to String(): its elements joined with commas.
NormalizeText_NoJoin(text) == IF text.t = "str" THEN text.s ELSE ToStringJs(text)

\* Lines 144-149: the text field as a string.
NormalizeText(text) ==
  IF text.t = "arr" THEN JoinItems(text.items, <<>>)
  ELSE IF text.t = "str" THEN text.s
  ELSE ToStringJs(text)

\* What one line makes the decoder do: kind "skip" (not a payload line), "done"
\* (cancel the reader and return) or "frag" (onChunk(frag)).
Outcome(kind, frag) == [kind |-> kind, frag |-> frag]

\* Lines 135-150: the text field of the parsed payload.
DecodeText(text) ==
  IF IsDoneText(text) THEN Outcome("done", <<>>)
  ELSE Outcome("frag", NormalizeText(text))

\* A catch that ends the decode instead of passing the raw payload on.
DecodeParsed_Abort(raw, p) ==
  IF ~p.ok \/ p.val.t = "null" THEN Outcome("done", <<>>)
  ELSE DecodeText(GetText(p.val))

\* Lines 132-143: p is JSON.parse(raw).  The catch takes what JSON.parse throws
\* and the TypeError of reading the text member of null.
DecodeParsed(raw, p) ==
  IF ~p.ok \/ p.val.t = "null" THEN Outcome("frag", raw)
  ELSE DecodeText(GetText(p.val))

\* No test for the raw sentinel: it goes to JSON.parse like any payload.
DecodeRaw_NoSentinel(raw) == DecodeParsed(raw, JsonParse(raw))

\* Lines 128-150: the raw payload of a payload line.
DecodeRaw(raw) ==
  IF raw = DoneToken THEN Outcome("done", <<>>)
  ELSE DecodeParsed(raw, JsonParse(raw))

\* Lines 126-150 for one line.
DecodeLine(line) ==
  IF ~StartsWith(line, DataPrefix) THEN Outcome("skip", <<>>)
  ELSE DecodeRaw(Trim(SubSeq(line, Len(DataPrefix) + 1, Len(line))))

\* The loops of lines 124-152 over the lines of the complete events of one read:
\* the fragments handed to onChunk in order, and whether the decoder returned.
RECURSIVE DecodeLines(_, _)
RECURSIVE AfterLine(_, _, _)

\* The fragments collected newest first.
AfterLine_Prepend(d, rest, acc) ==
  IF d.kind = "done" THEN [frags |-> acc, done |-> TRUE]
  ELSE IF d.kind = "skip" THEN DecodeLines(rest, acc)
  ELSE DecodeLines(rest, <<d.frag>> \o acc)

\* d is the outcome of the line before rest.
AfterLine(d, rest, acc) ==
  IF d.kind = "done" THEN [frags |-> acc, done |-> TRUE]
  ELSE IF d.kind = "skip" THEN DecodeLines(rest, acc)
  ELSE DecodeLines(rest, Append(acc, d.frag))

DecodeLines(lines, acc) ==
  IF lines = <<>> THEN [frags |-> acc, done |-> FALSE]
  ELSE AfterLine(DecodeLine(Head(lines)), Tail(lines), acc)

\* The lines of the events, in order.
EventLines(events) ==
  Concat([i \in 1..Len(events) |-> Split(events[i], "line")], 1, Len(events))

\* The remainder decoded as if it were a complete event.
ProcessEvents_Flush(pend, events) ==
  LET r == DecodeLines(EventLines(events), <<>>)
  IN [pend |-> pend, buffer |-> events[Len(events)], frags |-> r.frags, done |-> r.done]

\* Lines 123-152: events is buffer.split(...); its last element is the new buffer.
ProcessEvents(pend, events) ==
  LET r == DecodeLines(EventLines(SubSeq(events, 1, Len(events) - 1)), <<>>)
  IN [pend |-> pend, buffer |-> events[Len(events)], frags |-> r.frags, done |-> r.done]

\* The remainder of the reads before dropped.
ProcessDecoded_NoBuffer(dec, buffer) ==
  ProcessEvents(dec.pend, Split(dec.out, "blank"))

\* Lines 121-122: dec is the decoder's output for the bytes read.
ProcessDecoded(dec, buffer) ==
  ProcessEvents(dec.pend, Split(buffer \o dec.out, "blank"))

\* Lines 121-152 for one read: the new decoder state, buffer, fragments, done.
ProcessRead(pend, buffer, bytes) == ProcessDecoded(Utf8Decode(pend, bytes), buffer)

(* ------------------- the response body on the wire --------------------- *)
(* What the server sends: a script of items, each one line and the line    *)
(* break or blank-line delimiter after it.  kind "str": data: {"text":"v1"} *)
(* "arr": data: {"text":["v1","v2",...]}, "done": data: [DONE],            *)
(* "raw": data: v1 (any text), "comment": :v1.                             *)

Item(kind, v, sep) == [kind |-> kind, v |-> v, sep |-> sep]

Quoted(s) == <<QUOTE>> \o s \o <<QUOTE>>

RECURSIVE QuotedList(_)
QuotedList(vs) ==
  IF vs = <<>> THEN <<>>
  ELSE IF Len(vs) = 1 THEN Quoted(vs[1])
  ELSE Quoted(vs[1]) \o <<",">> \o QuotedList(Tail(vs))

TextObject(value) == <<"{">> \o Quoted(TextKey) \o <<":">> \o value \o <<"}">>

ItemLine(it) ==
  IF it.kind = "comment" THEN <<":">> \o it.v[1]
  ELSE DataPrefix \o <<" ">> \o
       (IF it.kind = "str" THEN TextObject(Quoted(it.v[1]))
        ELSE IF it.kind = "arr" THEN TextObject(<<"[">> \o QuotedList(it.v) \o <<"]">>)
        ELSE IF it.kind = "done" THEN DoneToken
        ELSE it.v[1])

SepText(sep) ==
  IF sep = "lf" THEN <<LF>>
  ELSE IF sep = "blank" THEN <<LF, LF>>
  ELSE IF sep = "crlfblank" THEN <<CR, LF, CR, LF>>
  ELSE <<>>

Utf8Encode(s) ==
  Concat([i \in 1..Len(s) |-> IF s[i] = EAcute THEN <<ByteC3, ByteA9>> ELSE <<s[i]>>],
         1, Len(s))

ItemBytes(it) == Utf8Encode(ItemLine(it) \o SepText(it.sep))

Render(script) ==
  Concat([i \in 1..Len(script) |-> ItemBytes(script[i])], 1, Len(script))

\* Byte offsets at which an item of the script ends.
ItemEnds(script) == {Len(Render(SubSeq(script, 1, n))) : n \in 1..Len(script)}

\* Items of the bodies of the decoder specification.
DecItems ==
  { Item("str", <<<<"a">>>>, "blank"),
    Item("arr", <<<<"b">>, <<"c">>>>, "crlfblank"),
    Item("done", <<>>, "blank"),
    Item("arr", <<DoneToken>>, "blank"),
    Item("str", <<DoneToken>>, "blank"),
    Item("raw", <<<<"n", "o">>>>, "blank"),
    Item("str", <<<<EAcute>>>>, "lf"),
    Item("str", <<<<"d">>>>, "none"),
    Item("done", <<>>, "lf"),
    Item("comment", <<<<"k">>>>, "lf") }

SeqsUpTo(S, n) == UNION {[1..m -> S] : m \in 0..n}

DecScripts == SeqsUpTo(DecItems, MaxFrames)

\* Bodies of the client specification: two fragments; a fragment and the sentinel.
AppScripts ==
  { <<Item("raw", <<<<"x">>>>, "blank"), Item("raw", <<<<"y">>>>, "blank")>>,
    <<Item("raw", <<<<"z">>>>, "blank"), Item("done", <<>>, "blank")>> }

(* ------------------------------ inputs --------------------------------- *)

\* "Please read these uploaded files." (App.tsx, handleFileUpload)
UploadText ==
  <<"P", "l", "e", "a", "s", "e", " ", "r", "e", "a", "d", " ", "t", "h", "e", "s", "e",
    " ", "u", "p", "l", "o", "a", "d", "e", "d", " ", "f", "i", "l", "e", "s", ".">>

\* What the user types into the textarea.
Typed == {<<>>, <<" ", LF>>, <<" ", "h", "i">>}

(* ------------------------------- state --------------------------------- *)

VARIABLES
  messages,             \* ChatBox: the transcript
  streaming,            \* ChatBox: the streaming flag
  abortController,      \* ChatBox: the controller held in state (0: null)
  input,                \* App: the textarea's text
  isUploadComplete,     \* App
  isStreamingComplete,  \* App
  sendDisabled,         \* App: the Send button's disabled attribute, as last rendered
  upload,               \* App: a handleFileUpload call awaiting uploadFileToContext
  nSends,               \* chatWithLLM calls so far
  strm,                 \* per send: the chatWithLLM call and its response
  errorLog,             \* console.error("Streaming error:", err) calls
  hist,                 \* per send: what it emitted and how it ended (history)
  lastCall              \* the handleSend call of the last step, if it was one (history)

vars ==
  <<messages, streaming, abortController, input, isUploadComplete, isStreamingComplete,
    sendDisabled, upload, nSends, strm, errorLog, hist, lastCall>>

Sends == 1..MaxSends

\* Members of the object useImperativeHandle gives the ref (ChatBoxHandle).
ChatBoxHandle == {"handleSend", "streaming"}

NoStream ==
  [pc |-> "idle", prompt |-> <<>>, host |-> FALSE, body |-> <<>>, flush |-> {},
   pos |-> 0, pend |-> <<>>, buffer |-> <<>>, aborted |-> FALSE]

NoHist ==
  [script |-> <<>>, emitted |-> <<>>, exit |-> "none", opened |-> 0, lenAtSend |-> 0,
   lenAtFold |-> 0, split |-> FALSE, cut |-> FALSE]

NoUpload == [active |-> FALSE, input |-> <<>>]
NoCall == [isSend |-> FALSE, text |-> <<>>]

Init ==
  /\ messages = <<>>
  /\ streaming = FALSE
  /\ abortController = 0
  /\ input = <<>>
  /\ isUploadComplete = TRUE
  /\ isStreamingComplete = TRUE
  /\ sendDisabled = FALSE
  /\ upload = NoUpload
  /\ nSends = 0
  /\ strm = [s \in Sends |-> NoStream]
  /\ errorLog = <<>>
  /\ hist = [s \in Sends |-> NoHist]
  /\ lastCall = NoCall

(* ------------------------ ChatBox: the fold ---------------------------- *)

Message(role, content) == [role |-> role, content |-> content]

\* An updater that sets the content to the chunk instead of appending it.
FoldChunk_Replace(message_state, chunk) ==
  IF Len(message_state) = 0 THEN message_state
  ELSE LET last == message_state[Len(message_state)]
       IN IF last.role # "assistant"
          THEN Append(message_state, Message("assistant", chunk))
          ELSE Append(SubSeq(message_state, 1, Len(message_state) - 1),
                      Message(last.role, chunk))

\* The updater handed to setMessages by onChunk (ChatBox.tsx 46-57).
FoldChunk(message_state, chunk) ==
  IF Len(message_state) = 0 THEN message_state
  ELSE LET last == message_state[Len(message_state)]
       IN IF last.role # "assistant"
          THEN Append(message_state, Message("assistant", chunk))
          ELSE Append(SubSeq(message_state, 1, Len(message_state) - 1),
                      Message(last.role, last.content \o chunk))

\* The queued updaters of one read, applied in order.
RECURSIVE FoldAll(_, _)
FoldAll(message_state, chunks) ==
  IF chunks = <<>> THEN message_state
  ELSE FoldAll(FoldChunk(message_state, Head(chunks)), Tail(chunks))

(* ------------------------- App: what it renders ------------------------ *)

\* disabled={chatRef.current?.streaming || !isUploadComplete || !isStreamingComplete}
\* (App.tsx 212), with seen the ref's streaming member as App's render reads it.
Disabled(seen, uploadComplete, streamingComplete) ==
  seen \/ ~uploadComplete \/ ~streamingComplete

\* Exits of chatWithLLM by a thrown error; the others return.
Thrown == {"network", "status", "nobody", "readerror", "abort"}

\* setStreaming(false) at the end of the try block instead of in finally.
StreamingAfter_NoFinally(flag, kind) == IF kind \in Thrown THEN flag ELSE FALSE

\* The streaming flag after the try/catch/finally of ChatBox.handleSend (61-65).
StreamingAfter(flag, kind) == FALSE

\* A catch that logs only a rejected fetch.
Logged_OnlyNetwork(kind) == kind = "network"

\* catch (err) { console.error("Streaming error:", err) } (ChatBox.tsx 61-63)
Logged(kind) == kind \in Thrown

(* ------------------------------ sending -------------------------------- *)

\* The placeholder first, the user message after it.
OpenMessages_AssistantFirst(message_state, text) ==
  message_state \o <<Message("assistant", <<>>), Message("user", text)>>

\* No placeholder: the first fragment is to open the assistant message.
OpenMessages_NoPlaceholder(message_state, text) ==
  Append(message_state, Message("user", text))

\* The two updaters handleSend hands to setMessages (ChatBox.tsx 36-37).
OpenMessages(message_state, text) ==
  Append(Append(message_state, Message("user", text)), Message("assistant", <<>>))

\* ChatBox.handleSend(text) up to the await of fetch (ChatBox.tsx 34-43,
\* api.ts 98): a blank text returns at once.  host: App.handleSend awaits it.
ChatBoxHandleSend(text, host) ==
  IF Trim(text) = <<>>
  THEN UNCHANGED <<messages, streaming, abortController, nSends, strm, hist>>
  ELSE LET s == nSends + 1
       IN /\ messages' = OpenMessages(messages, text)
          /\ streaming' = TRUE
          /\ abortController' = s
          /\ nSends' = s
          /\ strm' = [strm EXCEPT ![s] = [NoStream EXCEPT !.pc = "fetch", !.prompt = text,
                                                         !.host = host]]
          /\ hist' = [hist EXCEPT ![s] = [NoHist EXCEPT !.opened = Len(messages) + 2,
                                                        !.lenAtSend = Len(messages) + 2]]

\* App.handleSend with the input its closure holds, up to its await (App.tsx
\* 64-69); a blank input runs through finally at once.  limit bounds the sends.
AppHandleSend(inp, limit) ==
  LET text == Trim(inp)
  IN /\ text # <<>> => nSends < limit
     /\ lastCall' = [isSend |-> TRUE, text |-> inp]
     /\ IF text = <<>>
        THEN /\ isStreamingComplete' = TRUE
             /\ UNCHANGED <<messages, streaming, abortController, nSends, strm, hist>>
        ELSE /\ isStreamingComplete' = FALSE
             /\ ChatBoxHandleSend(text, TRUE)

\* handleSend of the handle the ref holds (ChatBox.tsx 68-71), called with any
\* text.
HandleSend(text, limit) ==
  /\ Trim(text) # <<>> => nSends < limit
  /\ lastCall' = [isSend |-> TRUE, text |-> text]
  /\ ChatBoxHandleSend(text, FALSE)
  /\ UNCHANGED <<input, isUploadComplete, isStreamingComplete, sendDisabled, upload,
                 errorLog>>

\* The Send button (App.tsx 209-215): clickable while not disabled.
ClickSend(limit) ==
  /\ ~sendDisabled
  /\ AppHandleSend(input, limit)
  /\ sendDisabled' = Disabled(streaming, isUploadComplete, isStreamingComplete')
  /\ UNCHANGED <<input, isUploadComplete, upload, errorLog>>

\* Enter in the textarea (App.tsx 204-206).
PressEnter(limit) ==
  /\ AppHandleSend(input, limit)
  /\ sendDisabled' = Disabled(streaming, isUploadComplete, isStreamingComplete')
  /\ UNCHANGED <<input, isUploadComplete, upload, errorLog>>

\* onChange of the textarea (App.tsx 203).
Type(text) ==
  /\ text # input
  /\ input' = text
  /\ sendDisabled' = Disabled(streaming, isUploadComplete, isStreamingComplete)
  /\ lastCall' = NoCall
  /\ UNCHANGED <<messages, streaming, abortController, isUploadComplete,
                 isStreamingComplete, upload, nSends, strm, errorLog, hist>>

\* handleFileUpload up to its await (App.tsx 49-54); its closure holds the input
\* of the render it was created in.  One upload is in flight at a time.
FileUploadStart ==
  /\ ~upload.active
  /\ upload' = [active |-> TRUE, input |-> input]
  /\ isUploadComplete' = FALSE
  /\ sendDisabled' = TRUE
  /\ lastCall' = NoCall
  /\ UNCHANGED <<messages, streaming, abortController, input, isStreamingComplete,
                 nSends, strm, errorLog, hist>>

\* The upload succeeded (App.tsx 55-57): setInput, handleSend(), setIsUploadComplete.
\* App's render reads the ref before or after ChatBox's commit (batched or not).
FileUploadDone(limit) ==
  /\ upload.active
  /\ AppHandleSend(upload.input, limit)
  /\ input' = UploadText
  /\ isUploadComplete' = TRUE
  /\ upload' = NoUpload
  /\ \E seen \in {streaming, streaming'} :
       sendDisabled' = Disabled(seen, TRUE, isStreamingComplete')
  /\ UNCHANGED errorLog

\* The upload failed (App.tsx 58-61).
FileUploadFail ==
  /\ upload.active
  /\ upload' = NoUpload
  /\ isUploadComplete' = TRUE
  /\ sendDisabled' = Disabled(streaming, TRUE, isStreamingComplete)
  /\ lastCall' = NoCall
  /\ UNCHANGED <<messages, streaming, abortController, input, isStreamingComplete,
                 nSends, strm, errorLog, hist>>

(* ---------------------------- the stream ------------------------------- *)

\* chatWithLLM of send s ends with exit kind: catch and finally of
\* ChatBox.handleSend (61-65), then the rest of the App.handleSend that awaited
\* it (App.tsx 70, 75-77).
EndSend(s, kind) ==
  /\ errorLog' = IF Logged(kind) THEN Append(errorLog, [send |-> s, kind |-> kind])
                 ELSE errorLog
  /\ streaming' = StreamingAfter(streaming, kind)
  /\ IF strm[s].host
     THEN /\ input' = <<>>
          /\ isStreamingComplete' = TRUE
          /\ \E seen \in {streaming, streaming'} :
               sendDisabled' = Disabled(seen, isUploadComplete, TRUE)
     ELSE UNCHANGED <<input, isStreamingComplete, sendDisabled>>
  /\ hist' = [hist EXCEPT ![s].exit = kind]
  /\ lastCall' = NoCall
  /\ UNCHANGED <<messages, abortController, isUploadComplete, upload, nSends>>

\* A loop that goes on after its exit: the call does not return.
Returned_KeepReading(st) == [st EXCEPT !.pc = "read"]

\* The call has returned or thrown: its locals (reader, decoder, buffer) are gone.
Returned(st) == [NoStream EXCEPT !.pc = "done", !.prompt = st.prompt, !.host = st.host]

\* fetch rejects: the network failed (api.ts 98).
FetchFail(s) ==
  /\ strm[s].pc = "fetch"
  /\ strm' = [strm EXCEPT ![s] = Returned(strm[s])]
  /\ EndSend(s, "network")

\* The response is not ok (api.ts 107-109).
RespondStatus(s) ==
  /\ strm[s].pc = "fetch"
  /\ strm' = [strm EXCEPT ![s] = Returned(strm[s])]
  /\ EndSend(s, "status")

\* The response has no body (api.ts 110-112).
RespondNoBody(s) ==
  /\ strm[s].pc = "fetch"
  /\ strm' = [strm EXCEPT ![s] = Returned(strm[s])]
  /\ EndSend(s, "nobody")

\* The response is ok and has a body (api.ts 114-119): the first read is pending.
RespondOk(s, script) ==
  /\ strm[s].pc = "fetch"
  /\ strm' = [strm EXCEPT ![s].pc = "read", ![s].body = Render(script),
                          ![s].flush = ItemEnds(script)]
  /\ hist' = [hist EXCEPT ![s].script = script]
  /\ lastCall' = NoCall
  /\ UNCHANGED <<messages, streaming, abortController, input, isUploadComplete,
                 isStreamingComplete, sendDisabled, upload, nSends, errorLog>>

\* Sizes of the next network read: up to maxRead bytes, up to the end of the item
\* being sent, or all the rest.
ReadSizes(s, maxRead) ==
  LET rest == Len(strm[s].body) - strm[s].pos
  IN {k \in 1..rest : \/ k <= maxRead
                      \/ k = rest
                      \/ strm[s].pos + k \in strm[s].flush}

\* reader.read() gives k bytes (api.ts 119-152): decode, split, decode the lines
\* of the complete events, fold their fragments; on a sentinel call reader.cancel().
Read(s, k) ==
  /\ strm[s].pc = "read"
  /\ \E r \in {ProcessRead(strm[s].pend, strm[s].buffer,
                            SubSeq(strm[s].body, strm[s].pos + 1, strm[s].pos + k))} :
       /\ messages' = FoldAll(messages, r.frags)
       /\ strm' = [strm EXCEPT ![s].pc = IF r.done THEN "cancel" ELSE "read",
                               ![s].pos = @ + k,
                               ![s].pend = r.pend,
                               ![s].buffer = r.buffer]
       /\ hist' = [hist EXCEPT ![s].emitted = @ \o r.frags,
                               ![s].lenAtFold = IF r.frags = <<>> THEN @
                                                ELSE Len(messages'),
                               ![s].split = @ \/ r.pend # <<>>,
                               ![s].cut = @ \/ (/\ r.buffer # <<>>
                                                /\ r.buffer[Len(r.buffer)] = CR)]
  /\ lastCall' = NoCall
  /\ UNCHANGED <<streaming, abortController, input, isUploadComplete,
                 isStreamingComplete, sendDisabled, upload, nSends, errorLog>>

\* reader.read() gives done: the body closed (api.ts 120).
ReadEof(s) ==
  /\ strm[s].pc = "read"
  /\ strm[s].pos = Len(strm[s].body)
  /\ strm' = [strm EXCEPT ![s] = Returned(strm[s])]
  /\ EndSend(s, "eof")

\* reader.read() rejects: the connection failed (api.ts 119).
ReadFail(s) ==
  /\ strm[s].pc = "read"
  /\ strm' = [strm EXCEPT ![s] = Returned(strm[s])]
  /\ EndSend(s, "readerror")

\* reader.cancel() resolved (api.ts 129-130, 137-138): the decoder returns.
CancelDone(s) ==
  /\ strm[s].pc = "cancel"
  /\ strm' = [strm EXCEPT ![s] = Returned(strm[s])]
  /\ EndSend(s, "sentinel")

\* The signal handed to fetch is aborted (api.ts 96, 104; the controller of
\* ChatBox.tsx 39-40, 59): a pending fetch or read rejects with an AbortError.
\* Neither ChatBox nor App calls controller.abort(); the step is whoever holds the
\* signal's controller doing so.
Abort(s) ==
  /\ strm[s].pc \in {"fetch", "read"}
  /\ strm' = [strm EXCEPT ![s] = [Returned(strm[s]) EXCEPT !.aborted = TRUE]]
  /\ EndSend(s, "abort")

(* --------------------------- specifications ---------------------------- *)

ClientNext(limit, scripts, maxRead) ==
  \/ \E text \in Typed : Type(text)
  \/ ClickSend(limit)
  \/ PressEnter(limit)
  \/ FileUploadStart
  \/ FileUploadDone(limit)
  \/ FileUploadFail
  \/ \E s \in Sends :
       \/ FetchFail(s)
       \/ RespondStatus(s)
       \/ RespondNoBody(s)
       \/ \E script \in scripts : RespondOk(s, script)
       \/ \E k \in ReadSizes(s, maxRead) : Read(s, k)
       \/ ReadEof(s)
       \/ ReadFail(s)
       \/ CancelDone(s)
       \/ Abort(s)

\* The client: the host's triggers and up to MaxSends streams.
Next == ClientNext(MaxSends, AppScripts, 0)

Spec == Init /\ [][Next]_vars

\* The component and its decoder: handleSend called with any text, one stream,
\* its body any script, read in any pieces.
DecoderInit ==
  /\ messages = <<>>
  /\ streaming = FALSE
  /\ abortController = 0
  /\ input = <<>>
  /\ isUploadComplete = TRUE
  /\ isStreamingComplete = TRUE
  /\ sendDisabled = FALSE
  /\ upload = NoUpload
  /\ nSends = 0
  /\ strm = [s \in Sends |-> NoStream]
  /\ errorLog = <<>>
  /\ hist = [s \in Sends |-> NoHist]
  /\ lastCall = NoCall

\* Texts that start a send.
Prompts == {text \in Typed : Trim(text) # <<>>}

DecoderNext ==
  \/ \E text \in Prompts : HandleSend(text, 1)
  \/ \E s \in Sends :
       \/ \E script \in DecScripts : RespondOk(s, script)
       \/ \E k \in ReadSizes(s, MaxRead) : Read(s, k)
       \/ ReadEof(s)
       \/ ReadFail(s)
       \/ CancelDone(s)

DecoderSpec == DecoderInit /\ [][DecoderNext]_vars

\* The component on its own: handleSend called through the handle at any time
\* with a text of texts, up to MaxSends streams, every way a stream can end.
ComponentNext(texts) ==
  \/ \E text \in texts : HandleSend(text, MaxSends)
  \/ \E s \in Sends :
       \/ FetchFail(s)
       \/ RespondStatus(s)
       \/ RespondNoBody(s)
       \/ \E script \in AppScripts : RespondOk(s, script)
       \/ \E k \in ReadSizes(s, 0) : Read(s, k)
       \/ ReadEof(s)
       \/ ReadFail(s)
       \/ CancelDone(s)
       \/ Abort(s)

ChatBoxNext == ComponentNext(Typed)

ChatBoxSpec == DecoderInit /\ [][ChatBoxNext]_vars

\* The same with the calls that start a send only.
StreamNext == ComponentNext(Prompts)

\* A reader.read() or reader.cancel() of send s is pending (api.ts 119, 129, 137):
\* Read, ReadEof or CancelDone is enabled.
Pending(s) == strm[s].pc \in {"read", "cancel"}

\* A step in which it resolves: Read (bytes), ReadEof (done) or CancelDone.  A
\* rejection (ReadFail, Abort) may happen as well but is not bound to.
Resolved(s) ==
  /\ Pending(s)
  /\ \/ strm'[s].pos > strm[s].pos
     \/ hist'[s].exit \in {"eof", "sentinel"}

\* The component where every pending read eventually resolves: weak fairness of
\* the resolving steps of each send, written out (WF_vars(A) is
\* []<>~ENABLED <<A>>_vars \/ []<><<A>>_vars).
FairSpec ==
  /\ DecoderInit /\ [][StreamNext]_vars
  /\ \A s \in Sends : ([]<>~Pending(s)) \/ ([]<><<Resolved(s)>>_vars)

(* =============================== claims ================================ *)

InFlight(s) == strm[s].pc \in {"fetch", "read", "cancel"}
Ended(s) == hist[s].exit # "none"

IsPrefix(a, b) == Len(a) <= Len(b) /\ SubSeq(b, 1, Len(a)) = a

\* The fragment an item stands for.
ItemFrag(it) == IF it.kind = "arr" THEN Concat(it.v, 1, Len(it.v)) ELSE it.v[1]

\* The items of a script that are payload lines.
Payloads(script) == SelectSeq(script, LAMBDA it : it.kind # "comment")

\* The fragments a script stands for, one for each payload line.
Expected(script) == [i \in 1..Len(Payloads(script)) |-> ItemFrag(Payloads(script)[i])]

\* Every item is a line of its own and the last frame is closed by a blank line.
Terminated(script) ==
  /\ script # <<>>
  /\ \A i \in 1..Len(script) : script[i].sep # "none"
  /\ script[Len(script)].sep \in {"blank", "crlfblank"}

\* No item carries the sentinel in any form.
Plain(script) ==
  \A i \in 1..Len(script) :
    /\ script[i].kind \in {"str", "arr", "raw", "comment"}
    /\ \A j \in 1..Len(script[i].v) : script[i].v[j] # DoneToken

\* Items that are a line of their own.
OwnLine(script) == {i \in 1..Len(script) : i = 1 \/ script[i - 1].sep # "none"}

\* Payload lines among the first n items.
PayloadsBefore(script, n) == Len(Payloads(SubSeq(script, 1, n)))

(* C1: the assistant message a send opened ends up holding the concatenation *)
(* of the fragments that send's decoder emitted, and the transcript is as    *)
(* long after the last fold as right after the send appended its messages.   *)
C1_FoldConcat ==
  \A s \in Sends :
    Ended(s) =>
      /\ messages[hist[s].opened].content
           = Concat(hist[s].emitted, 1, Len(hist[s].emitted))
      /\ hist[s].emitted # <<>> => hist[s].lenAtFold = hist[s].lenAtSend

(* C2: a payload line whose raw payload is [DONE] ends the sequence: no     *)
(* fragment for it nor for anything after it in the body (at most one per   *)
(* payload line before it), and the decoder does not run on to the end of   *)
(* the body.                                                                *)
ClosedLen(script) ==
  LET ends == {i \in 1..Len(script) : script[i].sep \in {"blank", "crlfblank"}}
  IN IF ends = {} THEN 0 ELSE CHOOSE i \in ends : \A j \in ends : j <= i

\* The items of the frames that a blank-line delimiter closes.
Closed(script) == SubSeq(script, 1, ClosedLen(script))

RawSentinels(script) ==
  {i \in OwnLine(script) : i <= ClosedLen(script) /\ script[i].kind = "done"}

C2_SentinelTerminates ==
  \A s \in Sends :
    \A i \in RawSentinels(hist[s].script) :
      /\ Len(hist[s].emitted) <= PayloadsBefore(hist[s].script, i - 1)
      /\ hist[s].exit # "eof"

C2_Witness ==
  \E s \in Sends :
    /\ hist[s].exit = "sentinel"
    /\ Len(hist[s].script) = 2
    /\ hist[s].script[1].kind = "done"
    /\ hist[s].script[2].kind = "str"
    /\ hist[s].emitted = <<>>

(* C3: a payload whose text field is the sentinel, bare or as the only      *)
(* element of an array, ends the sequence without a fragment for it.        *)
TextSentinels(script) ==
  {i \in OwnLine(script) : /\ script[i].kind \in {"str", "arr"}
                           /\ script[i].v = <<DoneToken>>}

C3_TextSentinel ==
  \A s \in Sends :
    \A i \in TextSentinels(hist[s].script) :
      Len(hist[s].emitted) <= PayloadsBefore(hist[s].script, i - 1)

(* C4: a payload that is not JSON is emitted as it stands, as one fragment,  *)
(* and the decode goes on: of a body of plain, terminated lines one of which *)
(* is malformed, the fragments emitted are always the first of the expected  *)
(* ones, the decoder never returns early, and at the end of the body they    *)
(* are all of them.                                                          *)
C4_MalformedRecovers ==
  \A s \in Sends :
    LET sc == hist[s].script
    IN (Terminated(sc) /\ Plain(sc) /\ \E i \in 1..Len(sc) : sc[i].kind = "raw") =>
         /\ IsPrefix(hist[s].emitted, Expected(sc))
         /\ strm[s].pc # "cancel" /\ hist[s].exit # "sentinel"
         /\ hist[s].exit = "eof" => hist[s].emitted = Expected(sc)

C4_Witness ==
  \E s \in Sends :
    /\ hist[s].exit = "eof"
    /\ Len(hist[s].script) = 2
    /\ hist[s].script[1].kind = "raw"
    /\ hist[s].script[2].kind = "str"
    /\ hist[s].emitted = <<<<"n", "o">>, <<"a">>>>

(* C5: a text field that is an array of strings gives exactly one fragment, *)
(* the concatenation of its elements in order.                              *)
C5_ArrayJoined ==
  \A s \in Sends :
    LET sc == hist[s].script
        ps == Payloads(sc)
    IN (Terminated(sc) /\ Plain(sc) /\ hist[s].exit = "eof") =>
         /\ Len(hist[s].emitted) = Len(ps)
         /\ \A j \in 1..Len(ps) :
              ps[j].kind = "arr" =>
                hist[s].emitted[j] = Concat(ps[j].v, 1, Len(ps[j].v))

C5_Witness ==
  \E s \in Sends :
    /\ hist[s].exit = "eof"
    /\ Len(hist[s].script) = 2
    /\ hist[s].script[1].kind = "str"
    /\ hist[s].script[2].kind = "arr"
    /\ hist[s].emitted = <<<<"a">>, <<"b", "c">>>>

(* C6: a send with an empty or whitespace-only text changes nothing: not    *)
(* the transcript, the streaming flag or the controller, and no request is  *)
(* issued.                                                                  *)
IsBlankText(text) == \A i \in 1..Len(text) : text[i] \in {" ", "\t", LF, CR}

C6_BlankSendNoOp ==
  [][(lastCall'.isSend /\ IsBlankText(lastCall'.text)) =>
       UNCHANGED <<messages, streaming, abortController, nSends, strm>>]_vars

C6_Witness ==
  /\ lastCall.isSend
  /\ lastCall.text = <<" ", LF>>
  /\ streaming
  /\ \E s \in Sends : InFlight(s)

(* C7: the client exposes a cancel operation for the request in flight.     *)
C7_CancelExposed ==
  (\E s \in Sends : InFlight(s)) => "cancel" \in ChatBoxHandle

(* C8: a send that ends by an abort surfaces no error; one that ends by a   *)
(* transport failure does.                                                  *)
ErrorsOf(s) == {i \in 1..Len(errorLog) : errorLog[i].send = s}

C9_FlagClearedOnExit ==
  [][\A s \in Sends : (~Ended(s) /\ Ended(s)') => ~streaming']_vars

C9_Witness ==
  /\ hist[1].exit = "readerror"
  /\ hist[2].exit = "sentinel"
  /\ ~streaming

(* C10: at most one stream is in flight at any time.                        *)
C10_SingleFlight == Cardinality({s \in Sends : InFlight(s)}) <= 1

(* C11: the step in which a non-blank send begins appends the user message  *)
(* carrying the sent text and an empty assistant message, in this order,    *)
(* and leaves the entries before them as they were.                         *)
C11_SendOpensPair ==
  [][nSends' # nSends =>
       LET n == Len(messages)
       IN /\ Len(messages') = n + 2
          /\ SubSeq(messages', 1, n) = messages
          /\ messages'[n + 1] = Message("user", strm'[nSends'].prompt)
          /\ messages'[n + 2] = Message("assistant", <<>>)]_vars

C11_Witness ==
  /\ nSends = 2
  /\ strm[2].pc = "fetch"
  /\ Len(messages) = 4
  /\ messages[2].content = <<"x">>
  /\ messages[3] = Message("user", <<" ", "h", "i">>)
  /\ messages[4] = Message("assistant", <<>>)

(* C12: a step that folds fragments changes the transcript at its tail only: *)
(* the length, every entry before the tail and the tail's role stay, and the *)
(* tail's content grows by the fragments folded, in order.                   *)
NewFrags(s) == SubSeq(hist'[s].emitted, Len(hist[s].emitted) + 1, Len(hist'[s].emitted))

C12_FoldTailOnly ==
  [][\A s \in Sends :
       hist'[s].emitted # hist[s].emitted =>
         LET n == Len(messages)
         IN /\ n > 0
            /\ Len(messages') = n
            /\ SubSeq(messages', 1, n - 1) = SubSeq(messages, 1, n - 1)
            /\ messages'[n].role = messages[n].role
            /\ messages'[n].content
                 = messages[n].content \o Concat(NewFrags(s), 1, Len(NewFrags(s)))]_vars

C12_Witness ==
  /\ Len(messages) = 4
  /\ messages[2].content = <<"z">>
  /\ messages[4].content = <<"x", "y">>
  /\ hist[2].emitted = <<<<"x">>, <<"y">>>>

(* C13: the fragments of a stream are handed on and folded in the order of  *)
(* their payload lines in the body: what has been emitted is always the     *)
(* first of the fragments the body's lines stand for, and the message holds *)
(* them concatenated in that order.                                         *)
Lines(script) == \A i \in 1..Len(script) : script[i].sep # "none"

C13_InOrder ==
  \A s \in Sends :
    LET sc == hist[s].script
    IN (hist[s].opened > 0 /\ Plain(sc) /\ Lines(sc)) =>
         /\ IsPrefix(hist[s].emitted, Expected(sc))
         /\ messages[hist[s].opened].content
              = Concat(hist[s].emitted, 1, Len(hist[s].emitted))

C13_Witness ==
  \E s \in Sends :
    /\ hist[s].exit = "eof"
    /\ hist[s].script = <<Item("str", <<<<"a">>>>, "blank"),
                          Item("arr", <<<<"b">>, <<"c">>>>, "crlfblank")>>
    /\ messages[hist[s].opened].content = <<"a", "b", "c">>

(* C14: a send that ended by a transport error (status, missing body, failed *)
(* read) emits nothing afterwards and stays ended; the step in which it ends *)
(* logs the error and leaves the streaming flag inactive.                    *)
Transport == {"status", "nobody", "readerror"}

C14_TransportTerminal ==
  [][\A s \in Sends :
       /\ hist[s].exit \in Transport =>
            /\ hist'[s].emitted = hist[s].emitted
            /\ hist'[s].exit = hist[s].exit
            /\ strm'[s].pc = "done"
       /\ (~Ended(s) /\ hist'[s].exit \in Transport) =>
            /\ ~streaming'
            /\ errorLog' = Append(errorLog, [send |-> s, kind |-> hist'[s].exit])
            /\ messages' = messages]_vars

C14_Witness ==
  /\ hist[1].exit = "readerror"
  /\ hist[1].emitted = <<<<"x">>>>
  /\ hist[2].exit = "status"
  /\ Len(errorLog) = 2
  /\ ~streaming

(* C15: where pending reads resolve, a stream whose response has arrived     *)
(* eventually returns (its body is finite), and a send that has ended emits  *)
(* nothing afterwards.                                                       *)
C15_DecodeTerminates ==
  /\ \A s \in Sends : (strm[s].pc \in {"read", "cancel"}) ~> (strm[s].pc = "done")
  /\ [][\A s \in Sends : Ended(s) => hist'[s].emitted = hist[s].emitted]_vars

C15_Witness ==
  /\ strm[1].pc = "done"
  /\ hist[1].exit = "sentinel"
  /\ hist[1].emitted = <<<<"z">>>>
  /\ strm[2].pc = "done"
  /\ hist[2].exit = "eof"

(* C16: the text decoded read by read is the text of the bytes decoded in   *)
(* one piece: the bytes held back and the buffer are those of the one-piece *)
(* decode, and no U+FFFD comes out of a character split between two reads.  *)
OnePiece(s) == Utf8Decode(<<>>, SubSeq(strm[s].body, 1, strm[s].pos))

NoReplacement(text) == \A i \in 1..Len(text) : text[i] # Replacement

C16_BoundarySafe ==
  \A s \in Sends :
    /\ strm[s].pc \in {"read", "cancel"} =>
         /\ strm[s].pend = OnePiece(s).pend
         /\ strm[s].buffer
              = Split(OnePiece(s).out, "blank")[Len(Split(OnePiece(s).out, "blank"))]
         /\ NoReplacement(strm[s].buffer)
    /\ \A j \in 1..Len(hist[s].emitted) : NoReplacement(hist[s].emitted[j])

C16_Witness ==
  \E s \in Sends :
    /\ hist[s].split
    /\ hist[s].exit = "eof"
    /\ hist[s].emitted = <<<<EAcute>>, <<"a">>>>

(* C17: once a stream has ended the component holds no controller for it.   *)
C17_HandleReleased == \A s \in Sends : Ended(s) => abortController # s

(* C18: whenever fragments are folded the transcript is not empty and its   *)
(* last message is the assistant's, and the fold appends no message.        *)
C18_NoDefensiveBranch ==
  [][\A s \in Sends :
       hist'[s].emitted # hist[s].emitted =>
         /\ messages # <<>>
         /\ messages[Len(messages)].role = "assistant"
         /\ Len(messages') = Len(messages)
         /\ messages'[Len(messages')].role = "assistant"]_vars

C18_Witness ==
  /\ Len(messages) = 4
  /\ hist[1].emitted = <<<<"x">>>>
  /\ hist[2].emitted = <<<<"z">>>>
  /\ messages[4].content = <<"z", "x">>

(* C19: a step that folds fragments of a send changes no message but the    *)
(* assistant message that send opened.                                      *)
C19_OwnMessage ==
  [][\A s \in Sends :
       hist'[s].emitted # hist[s].emitted =>
         \A i \in 1..Len(messages) :
           i # hist[s].opened => messages'[i] = messages[i]]_vars

(* C20: the streaming flag is active while any stream is in flight.         *)
C20_FlagWhileInFlight == (\E s \in Sends : InFlight(s)) => streaming

(* C21: what the decoder has emitted, and whether it has met a sentinel,     *)
(* depends only on the bytes read so far and not on the reads they came in:  *)
(* they are what one read of those bytes gives, so any two chunkings of a    *)
(* body emit the same fragments and end the same way.                        *)
WholeRead(bytes) == ProcessRead(<<>>, <<>>, bytes)

C21_ChunkingIndependent ==
  \A s \in Sends :
    /\ strm[s].pc \in {"read", "cancel"} =>
         \E w \in {WholeRead(SubSeq(strm[s].body, 1, strm[s].pos))} :
           /\ hist[s].emitted = w.frags
           /\ (strm[s].pc = "cancel") = w.done
    /\ hist[s].exit \in {"eof", "sentinel"} =>
         \E w \in {WholeRead(Render(hist[s].script))} :
           /\ hist[s].emitted = w.frags
           /\ (hist[s].exit = "sentinel") = w.done

C21_Witness ==
  \E s \in Sends :
    /\ hist[s].cut
    /\ hist[s].split
    /\ hist[s].exit = "eof"
    /\ hist[s].script = <<Item("str", <<<<EAcute>>>>, "lf"),
                          Item("arr", <<<<"b">>, <<"c">>>>, "crlfblank")>>
    /\ hist[s].emitted = <<<<EAcute>>, <<"b", "c">>>>

(* C22: only frames closed by a blank-line delimiter are decoded: when the   *)
(* closed frames of a body are plain lines, the fragments are always the     *)
(* first of theirs, the decoder never ends on a sentinel, and when the body  *)
(* closes they are theirs exactly, whatever follows the last delimiter.      *)
C22_OpenFrameDiscarded ==
  \A s \in Sends :
    LET cl == Closed(hist[s].script)
    IN (hist[s].opened > 0 /\ Plain(cl) /\ Lines(cl)) =>
         /\ IsPrefix(hist[s].emitted, Expected(cl))
         /\ strm[s].pc # "cancel"
         /\ hist[s].exit # "sentinel"
         /\ hist[s].exit = "eof" => hist[s].emitted = Expected(cl)

C22_Witness ==
  \E s \in Sends :
    /\ hist[s].exit = "eof"
    /\ hist[s].script = <<Item("str", <<<<"a">>>>, "blank"), Item("done", <<>>, "lf")>>
    /\ hist[s].emitted = <<<<"a">>>>

====
